---- MODULE Spec2Model ----
(***************************************************************************)
(* Model of the UIRobot driver (src/driver/UIRobot.ts): a session that     *)
(* forwards property writes to a remote agent as text lines over a TCP     *)
(* socket.  Strings are TLA+ strings, cut with SubSeq and joined with \o,  *)
(* so that split, quote, join and number formatting are computed as the    *)
(* JavaScript code computes them.                                          *)
(***************************************************************************)
EXTENDS Integers, Sequences, FiniteSets, TLC

(***************************************************************************)
(* Bounds of the model.                                                    *)
(***************************************************************************)
\* Number of key-release timers a behaviour may start.
MaxTimers == 2
\* Largest amount of time one Tick step lets pass.
TickUnit == 100
\* Largest value a script writes to a property.
MaxValue == 3

(***************************************************************************)
(* Program constants.                                                      *)
(***************************************************************************)
kPowerDownProgram == "C:/Windows/System32/shutdown.exe||/s /f /t 0"
KeyReleaseDelay == 200
LeftButtonMask == 1024
RightButtonMask == 4096

(***************************************************************************)
(* Inputs the environment may hand to the driver.                          *)
(***************************************************************************)
ProgramInputs == {"", "a", "b|d|x|y z", "|d", kPowerDownProgram}
KeyInputs == {"", "a", "shift+control+a", "altgr+hyper+meta+alt+b", "constructor+a"}
MouseDeltas == {-12, 7}
MessageTypes == {"Connection", "ConnectionFailed"}
ScriptPropertyNames == {"level", "mode"}
ScriptOptions == {<<>>, <<[readOnly |-> "undefined"]>>, <<[readOnly |-> "false"]>>,
                  <<[readOnly |-> "true"]>>}
GsFuncKinds == {"store", "even"}

(***************************************************************************)
(* JavaScript values and string primitives.                                *)
(***************************************************************************)
\* An optional value (T | undefined): the empty sequence is undefined.
None == <<>>
Some(v) == <<v>>
IsSome(opt) == Len(opt) > 0

CharAt(str, i) == SubSeq(str, i, i)

\* String.prototype.split(sep) for a one-character separator.
RECURSIVE splitFrom(_, _, _, _)
splitFrom(str, sep, i, cur) ==
    IF i > Len(str) THEN <<cur>>
    ELSE IF CharAt(str, i) = sep
         THEN <<cur>> \o splitFrom(str, sep, i + 1, "")
         ELSE splitFrom(str, sep, i + 1, cur \o CharAt(str, i))

split(str, sep) == splitFrom(str, sep, 1, "")

\* Array.prototype.join(sep) over an array of strings.
RECURSIVE join(_, _)
join(arr, sep) ==
    IF Len(arr) = 0 THEN ""
    ELSE IF Len(arr) = 1 THEN arr[1]
         ELSE arr[1] \o sep \o join(Tail(arr), sep)

\* String(n) for an integer n.
RECURSIVE natToString(_)
natToString(n) ==
    IF n < 10 THEN CharAt("0123456789", n + 1)
    ELSE natToString(n \div 10) \o CharAt("0123456789", (n % 10) + 1)

numToString(n) == IF n < 0 THEN "-" \o natToString(0 - n) ELSE natToString(n)

\* String(b) for a boolean b.
boolToString(b) == IF b THEN "true" ELSE "false"

\* arr[i] of a JavaScript array: undefined outside the array.
elementAt(arr, i) == IF i \in 1..Len(arr) THEN Some(arr[i]) ELSE None

\* String(v) of a string-or-undefined value, as '+' applies it.
optToString(opt) == IF IsSome(opt) THEN opt[1] ELSE "undefined"

\* arr.slice(from) with a 0-based start index.
sliceFrom(arr, from) == SubSeq(arr, from + 1, Len(arr))

(***************************************************************************)
(* sendCommand, quote and parseProgramParams.                              *)
(***************************************************************************)
\* The line sendCommand hands to socket.sendText: the command, a space and
\* the arguments joined by spaces (args already converted to strings).
sendCommand(command, args) == command \o " " \o join(args, " ")

quote(opt) == "\"" \o optToString(opt) \o "\""

\* x || '/' on a string x: the empty string is the only falsy string.
orDefault(str, dflt) == IF str # "" THEN str ELSE dflt

\* The ProgramParams object, or undefined for no/empty programParams.
parseProgramParams(programParams) ==
    IF programParams # ""
    THEN LET params == split(programParams, "|")
         IN Some([program    |-> quote(elementAt(params, 1)),
                  workingDir |-> orDefault(quote(elementAt(params, 2)), "/"),
                  arguments  |-> sliceFrom(params, 2)])
    ELSE None

(***************************************************************************)
(* The property setters as functions of the fields they read; each gives   *)
(* the new field values and the lines written to the socket, in order.     *)
(***************************************************************************)
\* Mutation: the new program is launched before the old one is terminated.
programSetter_LaunchFirst(cur, programParams) ==
    LET runningProgram == parseProgramParams(cur)
        terminate == IF IsSome(runningProgram)
                     THEN <<sendCommand("Terminate", <<runningProgram[1].program>>)>>
                     ELSE <<>>
        newProgram == parseProgramParams(programParams)
    IN IF IsSome(newProgram)
       THEN [mProgramParams |-> programParams,
             sent |-> <<sendCommand("Launch",
                                    <<newProgram[1].workingDir, newProgram[1].program>>
                                        \o newProgram[1].arguments)>> \o terminate]
       ELSE [mProgramParams |-> "", sent |-> terminate]

\* Mutation: the parsed executable path is stored instead of the input string.
programSetter_StoreParsed(cur, programParams) ==
    LET runningProgram == parseProgramParams(cur)
        terminate == IF IsSome(runningProgram)
                     THEN <<sendCommand("Terminate", <<runningProgram[1].program>>)>>
                     ELSE <<>>
        newProgram == parseProgramParams(programParams)
    IN IF IsSome(newProgram)
       THEN [mProgramParams |-> newProgram[1].program,
             sent |-> terminate \o
                      <<sendCommand("Launch",
                                    <<newProgram[1].workingDir, newProgram[1].program>>
                                        \o newProgram[1].arguments)>>]
       ELSE [mProgramParams |-> "", sent |-> terminate]

\* Mutation: an empty input leaves the stored string as it was.
programSetter_KeepOnEmpty(cur, programParams) ==
    LET runningProgram == parseProgramParams(cur)
        terminate == IF IsSome(runningProgram)
                     THEN <<sendCommand("Terminate", <<runningProgram[1].program>>)>>
                     ELSE <<>>
        newProgram == parseProgramParams(programParams)
    IN IF IsSome(newProgram)
       THEN [mProgramParams |-> programParams,
             sent |-> terminate \o
                      <<sendCommand("Launch",
                                    <<newProgram[1].workingDir, newProgram[1].program>>
                                        \o newProgram[1].arguments)>>]
       ELSE [mProgramParams |-> cur, sent |-> terminate]

\* Mutation: the running program is never terminated.
programSetter_NoTerminate(cur, programParams) ==
    LET newProgram == parseProgramParams(programParams)
    IN IF IsSome(newProgram)
       THEN [mProgramParams |-> programParams,
             sent |-> <<sendCommand("Launch",
                                    <<newProgram[1].workingDir, newProgram[1].program>>
                                        \o newProgram[1].arguments)>>]
       ELSE [mProgramParams |-> "", sent |-> <<>>]

\* set program(programParams), called with stored string cur.
programSetter(cur, programParams) ==
    LET runningProgram == parseProgramParams(cur)
        terminate == IF IsSome(runningProgram)
                     THEN <<sendCommand("Terminate", <<runningProgram[1].program>>)>>
                     ELSE <<>>
        newProgram == parseProgramParams(programParams)
    IN IF IsSome(newProgram)
       THEN [mProgramParams |-> programParams,
             sent |-> terminate \o
                      <<sendCommand("Launch",
                                    <<newProgram[1].workingDir, newProgram[1].program>>
                                        \o newProgram[1].arguments)>>]
       ELSE [mProgramParams |-> "", sent |-> terminate]

\* Mutation: power = true wakes the peer whether or not it is connected.
powerSetter_AlwaysWake(cur, conn, value) ==
    IF value
    THEN [mProgramParams |-> cur, sent |-> <<>>, wakes |-> 1]
    ELSE LET r == programSetter(cur, kPowerDownProgram)
         IN [mProgramParams |-> r.mProgramParams, sent |-> r.sent, wakes |-> 0]

\* set power(power), called with socket.connected = conn.
powerSetter(cur, conn, value) ==
    IF value
    THEN [mProgramParams |-> cur, sent |-> <<>>, wakes |-> IF ~conn THEN 1 ELSE 0]
    ELSE LET r == programSetter(cur, kPowerDownProgram)
         IN [mProgramParams |-> r.mProgramParams, sent |-> r.sent, wakes |-> 0]

\* Mutation: power reads the connection state alone.
powerGetter_ConnectedOnly(conn, cur) == conn

\* get power().
powerGetter(conn, cur) == conn /\ cur # kPowerDownProgram

sendMouseButtonState(buttonMask, down) ==
    sendCommand("MousePress", <<numToString(buttonMask), numToString(IF down THEN 1 ELSE 2)>>)

\* Mutation: the button state is sent on every write, changed or not.
buttonSetter_AlwaysSend(cur, buttonMask, value) ==
    [down |-> value, sent |-> <<sendMouseButtonState(buttonMask, value)>>]

\* set leftDown(value) / set rightDown(value), called with stored flag cur.
buttonSetter(cur, buttonMask, value) ==
    IF cur # value
    THEN [down |-> value, sent |-> <<sendMouseButtonState(buttonMask, value)>>]
    ELSE [down |-> cur, sent |-> <<>>]

(***************************************************************************)
(* keyDown: the modifier table and the running sum.  A JavaScript value    *)
(* met here is a number, a string, an object (a function) or undefined.    *)
(***************************************************************************)
JsNumber(n) == [kind |-> "number", n |-> n, s |-> ""]
JsString(str) == [kind |-> "string", n |-> 0, s |-> str]
JsObject(str) == [kind |-> "object", n |-> 0, s |-> str]
JsUndefined == [kind |-> "undefined", n |-> 0, s |-> "undefined"]

\* String(v).
jsToString(v) == IF v.kind = "number" THEN numToString(v.n) ELSE v.s

\* Properties every object literal inherits from Object.prototype, with the
\* text each converts to.
ObjectPrototypeMembers ==
    [constructor |-> "function Object() { [native code] }",
     toString |-> "function toString() { [native code] }",
     valueOf |-> "function valueOf() { [native code] }",
     hasOwnProperty |-> "function hasOwnProperty() { [native code] }"]

\* modifierValues[mod]: own properties first, then the prototype chain.
modifierValues(mod) ==
    IF mod = "shift" THEN JsNumber(1)
    ELSE IF mod = "control" THEN JsNumber(2)
    ELSE IF mod = "alt" THEN JsNumber(4)
    ELSE IF mod = "altgr" THEN JsNumber(8)
    ELSE IF mod = "meta" THEN JsNumber(16)
    ELSE IF mod \in DOMAIN ObjectPrototypeMembers
         THEN JsObject(ObjectPrototypeMembers[mod])
         ELSE JsUndefined

\* v || 0.
orZero(v) ==
    IF v.kind = "undefined" \/ (v.kind = "number" /\ v.n = 0) \/ (v.kind = "string" /\ v.s = "")
    THEN JsNumber(0) ELSE v

\* a + b: numeric addition of two numbers, string concatenation otherwise.
jsPlus(a, b) ==
    IF a.kind = "number" /\ b.kind = "number" THEN JsNumber(a.n + b.n)
    ELSE JsString(jsToString(a) \o jsToString(b))

\* modifiers.forEach(mod => modifierSum += modifierValues[mod] || 0)
RECURSIVE sumModifiers(_, _)
sumModifiers(modifiers, modifierSum) ==
    IF Len(modifiers) = 0 THEN modifierSum
    ELSE sumModifiers(Tail(modifiers),
                      jsPlus(modifierSum, orZero(modifierValues(Head(modifiers)))))

\* The KeyPress line of a non-empty keys string.
keyPressCommand(keys) ==
    LET keyPresses == split(keys, "+")
        key == keyPresses[Len(keyPresses)]
        modifierSum == IF Len(keyPresses) > 1
                       THEN sumModifiers(SubSeq(keyPresses, 1, Len(keyPresses) - 1), JsNumber(0))
                       ELSE JsNumber(0)
    IN sendCommand("KeyPress", <<key, jsToString(modifierSum)>>)

(***************************************************************************)
(* Timers: wait(ms) makes a pending timer, cancel() keeps its callback     *)
(* from ever running.  A timer is [status, remaining]; only a pending      *)
(* timer has time left to wait.                                            *)
(***************************************************************************)
NoTimer == 0

cancel(ts, id) ==
    [i \in DOMAIN ts |->
        IF i = id /\ ts[i].status = "pending"
        THEN [status |-> "cancelled", remaining |-> 0] ELSE ts[i]]

wait(ts, ms) == Append(ts, [status |-> "pending", remaining |-> ms])

\* Mutation: the running timer is not cancelled before the new one starts.
keyDownSetter_NoCancel(ts, ref, keys) ==
    IF keys # ""
    THEN LET started == wait(ts, KeyReleaseDelay)
         IN [mCurrentKeys |-> keys,
             sent |-> <<keyPressCommand(keys)>>,
             timers |-> started,
             mKeyRlsTimer |-> Len(started)]
    ELSE [mCurrentKeys |-> keys, sent |-> <<>>, timers |-> ts, mKeyRlsTimer |-> ref]

\* Mutation: the new timer is stored first, so cancel() hits it and not the old one.
keyDownSetter_CancelNew(ts, ref, keys) ==
    IF keys # ""
    THEN LET started == wait(ts, KeyReleaseDelay)
             cancelled == IF ref # NoTimer THEN cancel(started, Len(started)) ELSE started
         IN [mCurrentKeys |-> keys,
             sent |-> <<keyPressCommand(keys)>>,
             timers |-> cancelled,
             mKeyRlsTimer |-> Len(started)]
    ELSE [mCurrentKeys |-> keys, sent |-> <<>>, timers |-> ts, mKeyRlsTimer |-> ref]

\* Mutation: a running timer is cancelled but no new one is started for the new keys.
keyDownSetter_CancelOnly(ts, ref, keys) ==
    IF keys # ""
    THEN LET cancelled == IF ref # NoTimer THEN cancel(ts, ref) ELSE ts
             started == IF ref # NoTimer THEN cancelled ELSE wait(cancelled, KeyReleaseDelay)
         IN [mCurrentKeys |-> keys,
             sent |-> <<keyPressCommand(keys)>>,
             timers |-> started,
             mKeyRlsTimer |-> IF ref # NoTimer THEN NoTimer ELSE Len(started)]
    ELSE [mCurrentKeys |-> keys, sent |-> <<>>, timers |-> ts, mKeyRlsTimer |-> ref]

\* set keyDown(keys), called with the timer table ts and mKeyRlsTimer = ref.
keyDownSetter(ts, ref, keys) ==
    IF keys # ""
    THEN LET cancelled == IF ref # NoTimer THEN cancel(ts, ref) ELSE ts
             started == wait(cancelled, KeyReleaseDelay)
         IN [mCurrentKeys |-> keys,
             sent |-> <<keyPressCommand(keys)>>,
             timers |-> started,
             mKeyRlsTimer |-> Len(started)]
    ELSE [mCurrentKeys |-> keys, sent |-> <<>>, timers |-> ts, mKeyRlsTimer |-> ref]

\* Mutation: the callback leaves the timer reference set.
keyReleaseCallback_KeepRef(ts, ref) ==
    LET r == keyDownSetter(ts, ref, "")
    IN [mCurrentKeys |-> r.mCurrentKeys, sent |-> r.sent, timers |-> r.timers,
        mKeyRlsTimer |-> ref]

\* The callback given to mKeyRlsTimer.then(...).
keyReleaseCallback(ts, ref) ==
    LET r == keyDownSetter(ts, ref, "")
    IN [mCurrentKeys |-> r.mCurrentKeys, sent |-> r.sent, timers |-> r.timers,
        mKeyRlsTimer |-> NoTimer]

\* Mutation: a disconnect leaves the stored program string alone.
onConnectStateChanged_NoReset(cur, conn) ==
    [mProgramParams |-> cur,
     notified |-> <<"power">>]

\* Mutation: the stored program is cleared on connect instead of on disconnect.
onConnectStateChanged_Inverted(cur, conn) ==
    [mProgramParams |-> IF conn THEN "" ELSE cur,
     notified |-> <<"power">>]

\* onConnectStateChanged(connected), called with stored string cur.
onConnectStateChanged(cur, conn) ==
    [mProgramParams |-> IF ~conn THEN "" ELSE cur,
     notified |-> <<"power">>]

(***************************************************************************)
(* ScriptBase.property (src/system_lib/ScriptBase.js).  A getter/setter    *)
(* function gsFunc keeps one value: called without an argument it returns  *)
(* the value, called with one it stores it and returns what it stored.     *)
(* Kind "store" keeps the argument as it is, kind "even" rounds it down    *)
(* to an even number first.                                                *)
(***************************************************************************)
gsFunc(kind, stored, arg) ==
    IF IsSome(arg)
    THEN LET kept == IF kind = "even" THEN arg[1] - (arg[1] % 2) ELSE arg[1]
         IN [returned |-> kept, stored |-> kept]
    ELSE [returned |-> stored, stored |-> stored]

\* !options || !options.readOnly: whether the descriptor gets a set function.
\* options is undefined or an object whose readOnly is "undefined", "false" or "true".
hasSetter(options) == ~IsSome(options) \/ options[1].readOnly # "true"

\* Mutation: the old value is compared with the written value, not with the
\* value gsFunc returns after storing.
propDescriptorSet_CompareWritten(name, kind, stored, value) ==
    LET oldValue == gsFunc(kind, stored, None).returned
        new == gsFunc(kind, stored, Some(value))
    IN [stored |-> new.stored,
        changed |-> IF oldValue # value THEN <<name>> ELSE <<>>]

\* propDescriptor.set(value): the new stored value and the changed() calls.
propDescriptorSet(name, kind, stored, value) ==
    LET oldValue == gsFunc(kind, stored, None).returned
        new == gsFunc(kind, stored, Some(value))
    IN [stored |-> new.stored,
        changed |-> IF oldValue # new.returned THEN <<name>> ELSE <<>>]

\* propDescriptor.get().
propDescriptorGet(kind, stored) == gsFunc(kind, stored, None).returned

\* The host's handling of a property written from outside the driver: it
\* raises a change notification for that property when the value read from
\* it has changed.
hostPropertyChanged(name, old, new) == IF old # new THEN <<name>> ELSE <<>>

(***************************************************************************)
(* State of one session.                                                   *)
(***************************************************************************)
VARIABLES
    connected,       \* socket.connected
    mLeftDown,       \* left mouse button flag
    mRightDown,      \* right mouse button flag
    mProgramParams,  \* the stored program string
    mCurrentKeys,    \* the stored key combo
    mKeyRlsTimer,    \* index in timers of the referenced timer, or NoTimer
    timers,          \* every timer wait(200) has made, in order of creation
    sinceKeyWrite,   \* time passed since the latest non-empty keyDown write
    sent,            \* lines the latest step wrote to the socket, in order
    notified,        \* property names the latest step raised a change for
    wakes,           \* number of socket.wakeOnLAN() calls of the latest step
    lastOp,          \* the latest step: its handler and argument (as text)
    scriptProps,     \* per name: the property a script defined with property()
    scriptNotified,  \* names the latest script step passed to the facade's changed()
    scriptOp         \* the latest script step

scriptVars == <<scriptProps, scriptNotified, scriptOp>>

vars == <<connected, mLeftDown, mRightDown, mProgramParams, mCurrentKeys,
          mKeyRlsTimer, timers, sinceKeyWrite, sent, notified, wakes, lastOp,
          scriptVars>>

driverVars == <<connected, mLeftDown, mRightDown, mProgramParams, mCurrentKeys,
                mKeyRlsTimer, timers, sinceKeyWrite, sent, notified, wakes, lastOp>>

Op(name, arg) == [op |-> name, arg |-> arg]

\* A property of a script: not defined yet, or defined with its options,
\* the kind of its getter/setter function and the value that function keeps.
Undefined == [defined |-> FALSE, options |-> None, kind |-> "store", value |-> 0]
ScriptOp(name, prop, value) == [op |-> name, prop |-> prop, value |-> value]

\* The values the property getters return.
power == powerGetter(connected, mProgramParams)
program == mProgramParams
keyDown == mCurrentKeys
leftDown == mLeftDown
rightDown == mRightDown

\* The constructor: fields at their initialisers, then onConnectStateChanged(true)
\* when the socket is already connected.
Init ==
    /\ connected \in BOOLEAN
    /\ mLeftDown = FALSE
    /\ mRightDown = FALSE
    /\ mProgramParams = ""
    /\ mCurrentKeys = ""
    /\ mKeyRlsTimer = NoTimer
    /\ timers = <<>>
    /\ sinceKeyWrite = 0
    /\ sent = <<>>
    /\ notified = IF connected THEN onConnectStateChanged("", TRUE).notified ELSE <<>>
    /\ wakes = 0
    /\ lastOp = Op("constructor", "")
    /\ scriptProps = [name \in ScriptPropertyNames |-> Undefined]
    /\ scriptNotified = <<>>
    /\ scriptOp = ScriptOp("constructor", "", 0)

\* The socket publishes a 'connect' message; only type 'Connection' reaches
\* onConnectStateChanged, with the socket's new connected state.
ConnectMessage(type, conn) ==
    /\ type \in MessageTypes
    /\ IF type = "Connection"
       THEN LET r == onConnectStateChanged(mProgramParams, conn)
            IN /\ connected' = conn
               /\ mProgramParams' = r.mProgramParams
               /\ notified' = r.notified
       ELSE /\ conn = connected
            /\ UNCHANGED <<connected, mProgramParams>>
            /\ notified' = <<>>
    /\ sent' = <<>>
    /\ wakes' = 0
    /\ lastOp' = Op(type, boolToString(conn))
    /\ UNCHANGED <<mLeftDown, mRightDown, mCurrentKeys, mKeyRlsTimer, timers, sinceKeyWrite,
                   scriptVars>>

SetPower(value) ==
    LET r == powerSetter(mProgramParams, connected, value)
    IN /\ mProgramParams' = r.mProgramParams
       /\ sent' = r.sent
       /\ wakes' = r.wakes
       /\ notified' = hostPropertyChanged("power", power,
                                          powerGetter(connected, r.mProgramParams))
       /\ lastOp' = Op("power", boolToString(value))
       /\ UNCHANGED <<connected, mLeftDown, mRightDown, mCurrentKeys, mKeyRlsTimer,
                      timers, sinceKeyWrite,
                   scriptVars>>

SetLeftDown(value) ==
    LET r == buttonSetter(mLeftDown, LeftButtonMask, value)
    IN /\ mLeftDown' = r.down
       /\ sent' = r.sent
       /\ wakes' = 0
       /\ notified' = hostPropertyChanged("leftDown", leftDown, r.down)
       /\ lastOp' = Op("leftDown", boolToString(value))
       /\ UNCHANGED <<connected, mRightDown, mProgramParams, mCurrentKeys, mKeyRlsTimer,
                      timers, sinceKeyWrite,
                   scriptVars>>

SetRightDown(value) ==
    LET r == buttonSetter(mRightDown, RightButtonMask, value)
    IN /\ mRightDown' = r.down
       /\ sent' = r.sent
       /\ wakes' = 0
       /\ notified' = hostPropertyChanged("rightDown", rightDown, r.down)
       /\ lastOp' = Op("rightDown", boolToString(value))
       /\ UNCHANGED <<connected, mLeftDown, mProgramParams, mCurrentKeys, mKeyRlsTimer,
                      timers, sinceKeyWrite,
                   scriptVars>>

MoveMouse(x, y) ==
    /\ sent' = <<sendCommand("MouseMove", <<numToString(x), numToString(y)>>)>>
    /\ wakes' = 0
    /\ notified' = <<>>
    /\ lastOp' = Op("moveMouse", numToString(x) \o "," \o numToString(y))
    /\ UNCHANGED <<connected, mLeftDown, mRightDown, mProgramParams, mCurrentKeys,
                   mKeyRlsTimer, timers, sinceKeyWrite,
                   scriptVars>>

SetProgram(programParams) ==
    LET r == programSetter(mProgramParams, programParams)
    IN /\ mProgramParams' = r.mProgramParams
       /\ sent' = r.sent
       /\ wakes' = 0
       /\ notified' = hostPropertyChanged("program", program, r.mProgramParams)
       /\ lastOp' = Op("program", programParams)
       /\ UNCHANGED <<connected, mLeftDown, mRightDown, mCurrentKeys, mKeyRlsTimer,
                      timers, sinceKeyWrite,
                   scriptVars>>

SetKeyDown(keys) ==
    /\ keys # "" => Len(timers) < MaxTimers
    /\ LET r == keyDownSetter(timers, mKeyRlsTimer, keys)
       IN /\ mCurrentKeys' = r.mCurrentKeys
          /\ timers' = r.timers
          /\ mKeyRlsTimer' = r.mKeyRlsTimer
          /\ sent' = r.sent
          /\ notified' = hostPropertyChanged("keyDown", keyDown, r.mCurrentKeys)
    /\ sinceKeyWrite' = IF keys # "" THEN 0 ELSE sinceKeyWrite
    /\ wakes' = 0
    /\ lastOp' = Op("keyDown", keys)
    /\ UNCHANGED <<connected, mLeftDown, mRightDown, mProgramParams,
                   scriptVars>>

\* A pending timer whose delay has passed resolves and runs its callback.
TimerFire(id) ==
    /\ id \in DOMAIN timers
    /\ timers[id].status = "pending"
    /\ timers[id].remaining = 0
    /\ LET r == keyReleaseCallback([timers EXCEPT ![id].status = "fired"], mKeyRlsTimer)
       IN /\ mCurrentKeys' = r.mCurrentKeys
          /\ timers' = r.timers
          /\ mKeyRlsTimer' = r.mKeyRlsTimer
          /\ sent' = r.sent
    /\ wakes' = 0
    /\ notified' = <<>>
    /\ lastOp' = Op("timer", numToString(id))
    /\ UNCHANGED <<connected, mLeftDown, mRightDown, mProgramParams, sinceKeyWrite,
                   scriptVars>>

Min(a, b) == IF a < b THEN a ELSE b

PendingTimers == {i \in DOMAIN timers : timers[i].status = "pending"}

\* Time passes, by TickUnit at most and never beyond the moment a pending
\* timer is due.
Tick ==
    /\ PendingTimers # {}
    /\ LET soonest == CHOOSE m \in {timers[i].remaining : i \in PendingTimers} :
                          \A i \in PendingTimers : m <= timers[i].remaining
           d == Min(TickUnit, soonest)
       IN /\ d > 0
          /\ timers' = [i \in DOMAIN timers |->
                           IF i \in PendingTimers
                           THEN [timers[i] EXCEPT !.remaining = @ - d] ELSE timers[i]]
          /\ sinceKeyWrite' = sinceKeyWrite + d
    /\ sent' = <<>>
    /\ wakes' = 0
    /\ notified' = <<>>
    /\ lastOp' = Op("tick", "")
    /\ UNCHANGED <<connected, mLeftDown, mRightDown, mProgramParams, mCurrentKeys,
                   mKeyRlsTimer,
                   scriptVars>>

Next ==
    \/ \E type \in MessageTypes, conn \in BOOLEAN : ConnectMessage(type, conn)
    \/ \E value \in BOOLEAN : SetPower(value)
    \/ \E value \in BOOLEAN : SetLeftDown(value)
    \/ \E value \in BOOLEAN : SetRightDown(value)
    \/ \E x \in MouseDeltas, y \in MouseDeltas : MoveMouse(x, y)
    \/ \E programParams \in ProgramInputs : SetProgram(programParams)
    \/ \E keys \in KeyInputs : SetKeyDown(keys)
    \/ \E id \in 1..MaxTimers : TimerFire(id)
    \/ Tick

Spec == Init /\ [][Next]_vars

(***************************************************************************)
(* A user script built on ScriptBase: it defines properties and the host   *)
(* or the script reads and writes them.                                    *)
(***************************************************************************)
\* ScriptBase.prototype.property(name, options, gsFunc); defining a name
\* twice makes Object.defineProperty throw.
ScriptProperty(name, options, kind) ==
    /\ ~scriptProps[name].defined
    /\ scriptProps' = [scriptProps EXCEPT ![name] =
                          [defined |-> TRUE, options |-> options, kind |-> kind,
                           value |-> 0]]
    /\ scriptNotified' = <<>>
    /\ scriptOp' = ScriptOp("property", name, 0)
    /\ UNCHANGED driverVars

\* An assignment script[name] = value: it runs the descriptor's set function
\* when there is one and has no effect otherwise.
ScriptWrite(name, value) ==
    /\ scriptProps[name].defined
    /\ IF hasSetter(scriptProps[name].options)
       THEN LET r == propDescriptorSet(name, scriptProps[name].kind,
                                       scriptProps[name].value, value)
            IN /\ scriptProps' = [scriptProps EXCEPT ![name].value = r.stored]
               /\ scriptNotified' = r.changed
       ELSE /\ UNCHANGED scriptProps
            /\ scriptNotified' = <<>>
    /\ scriptOp' = ScriptOp("write", name, value)
    /\ UNCHANGED driverVars

\* A read of script[name]: the descriptor's get function.
ScriptRead(name) ==
    /\ scriptProps[name].defined
    /\ scriptNotified' = <<>>
    /\ scriptOp' = ScriptOp("read", name,
                            propDescriptorGet(scriptProps[name].kind, scriptProps[name].value))
    /\ UNCHANGED <<scriptProps, driverVars>>

\* ScriptBase.prototype.changed(propName).
ScriptChanged(name) ==
    /\ scriptNotified' = <<name>>
    /\ scriptOp' = ScriptOp("changed", name, 0)
    /\ UNCHANGED <<scriptProps, driverVars>>

ScriptNext ==
    \/ \E name \in ScriptPropertyNames, options \in ScriptOptions, kind \in GsFuncKinds :
           ScriptProperty(name, options, kind)
    \/ \E name \in ScriptPropertyNames, value \in 0..MaxValue : ScriptWrite(name, value)
    \/ \E name \in ScriptPropertyNames : ScriptRead(name)
    \/ \E name \in ScriptPropertyNames : ScriptChanged(name)

ScriptSpec == Init /\ [][ScriptNext]_vars

\* The event loop runs a due timer callback, and time does not stop.
FairSpec == Spec /\ WF_vars(Tick) /\ WF_vars(\E id \in 1..MaxTimers : TimerFire(id))

TypeOK ==
    /\ connected \in BOOLEAN
    /\ mLeftDown \in BOOLEAN
    /\ mRightDown \in BOOLEAN
    /\ mProgramParams \in ProgramInputs
    /\ mCurrentKeys \in KeyInputs
    /\ mKeyRlsTimer \in 0..MaxTimers
    /\ Len(timers) <= MaxTimers
    /\ sinceKeyWrite \in 0..KeyReleaseDelay
    /\ wakes \in 0..1

(***************************************************************************)
(* Wire lines as the specification words them, built without the driver's  *)
(* own split and parse.                                                    *)
(***************************************************************************)
\* The text of str before its first '|' (all of str when it has none).
FirstSegment(str) ==
    LET bars == {i \in 1..Len(str) : CharAt(str, i) = "|"}
    IN IF bars = {} THEN str
       ELSE SubSeq(str, 1, (CHOOSE i \in bars : \A j \in bars : i <= j) - 1)

StartsWith(line, prefix) ==
    Len(line) >= Len(prefix) /\ SubSeq(line, 1, Len(prefix)) = prefix

Contains(line, part) ==
    \E i \in 1..(Len(line) - Len(part) + 1) : SubSeq(line, i, i + Len(part) - 1) = part

\* Terminate with the quoted executable path of stored string str.
TerminateLine(str) == "Terminate \"" \o FirstSegment(str) \o "\""

\* A Launch line that names the quoted executable path of input str.
IsLaunchOf(line, str) ==
    StartsWith(line, "Launch ") /\ Contains(line, " \"" \o FirstSegment(str) \o "\"")

IsStep(name) == lastOp'.op = name

(***************************************************************************)
(* C1: a write program = s with s non-empty, made while a program is       *)
(* running, sends exactly two lines: Terminate with the quoted executable  *)
(* path of the program that was running, then Launch for s.                *)
(***************************************************************************)
C1_TerminateThenLaunch ==
    [][(IsStep("program") /\ lastOp'.arg # "" /\ mProgramParams # "")
        => /\ Len(sent') = 2
           /\ sent'[1] = TerminateLine(mProgramParams)
           /\ IsLaunchOf(sent'[2], lastOp'.arg)]_vars

C1_Witness ==
    /\ lastOp = Op("program", "b|d|x|y z")
    /\ Len(sent) = 2
    /\ sent[1] = "Terminate \"a\""
    /\ StartsWith(sent[2], "Launch ")

(***************************************************************************)
(* C2: right after a write program = p with p non-empty, program reads     *)
(* exactly p.                                                              *)
(***************************************************************************)
C2_ProgramRoundTrip ==
    (lastOp.op = "program" /\ lastOp.arg # "") => program = lastOp.arg

C2_Witness ==
    /\ lastOp = Op("program", "b|d|x|y z")
    /\ program = "b|d|x|y z"
    /\ Len(sent) = 1

(***************************************************************************)
(* C3: a write program = "" sends one Terminate (quoted executable path of *)
(* the running program) and no Launch when a program is running, sends     *)
(* nothing when none is, and leaves program reading "".                    *)
(***************************************************************************)
C3_EmptyProgramWrite ==
    [][(IsStep("program") /\ lastOp'.arg = "")
        => /\ sent' = IF mProgramParams # "" THEN <<TerminateLine(mProgramParams)>> ELSE <<>>
           /\ program' = ""]_vars

C3_Witness ==
    /\ lastOp = Op("program", "")
    /\ sent = <<"Terminate \"C:/Windows/System32/shutdown.exe\"">>
    /\ program = ""

(***************************************************************************)
(* C4: a connection-state event raises changed("power") exactly once and   *)
(* sends nothing; program is reset to "" when the new state is             *)
(* disconnected and is left as it was when the new state is connected.     *)
(***************************************************************************)
C4_ConnectionEvent ==
    [][IsStep("Connection")
        => /\ notified' = <<"power">>
           /\ sent' = <<>>
           /\ connected' = (lastOp'.arg = "true")
           /\ program' = IF connected' THEN program ELSE ""]_vars

C4_Witness ==
    /\ lastOp = Op("Connection", "false")
    /\ notified = <<"power">>
    /\ program = ""
    /\ ~connected
    /\ timers # <<>>

(***************************************************************************)
(* C5: a write power = false acts as program = kPowerDownProgram: a        *)
(* running program is terminated first, the shutdown program is launched   *)
(* and the shutdown string is stored; while it is stored power reads       *)
(* false, and only a disconnect or a program write replaces it.            *)
(***************************************************************************)
C5_PowerOff ==
    /\ [][(IsStep("power") /\ lastOp'.arg = "false")
           => /\ program' = kPowerDownProgram
              /\ Len(sent') = IF mProgramParams # "" THEN 2 ELSE 1
              /\ mProgramParams # "" => sent'[1] = TerminateLine(mProgramParams)
              /\ IsLaunchOf(sent'[Len(sent')], "C:/Windows/System32/shutdown.exe")
              /\ Contains(sent'[Len(sent')], " /s /f /t 0")]_vars
    /\ [](program = kPowerDownProgram => power = FALSE)
    /\ [][(program = kPowerDownProgram /\ program' # kPowerDownProgram)
           => (IsStep("program") \/ lastOp' = Op("Connection", "false"))]_vars

C5_Witness ==
    /\ lastOp = Op("power", "false")
    /\ connected
    /\ program = kPowerDownProgram
    /\ power = FALSE
    /\ Len(sent) = 2
    /\ sent[1] = "Terminate \"b\""

(***************************************************************************)
(* C6: a write power = true changes no session field and no value read     *)
(* from power, sends no line, and calls wakeOnLAN exactly when the socket  *)
(* is not connected.                                                       *)
(***************************************************************************)
C6_PowerOn ==
    [][(IsStep("power") /\ lastOp'.arg = "true")
        => /\ UNCHANGED <<mProgramParams, mCurrentKeys, mLeftDown, mRightDown,
                          mKeyRlsTimer, timers, connected>>
           /\ sent' = <<>>
           /\ power' = power
           /\ wakes' = IF connected THEN 0 ELSE 1]_vars

C6_Witness ==
    /\ lastOp = Op("power", "true")
    /\ ~connected
    /\ wakes = 1
    /\ program # ""

(***************************************************************************)
(* C7: a non-empty keyDown write sends exactly one KeyPress whose key is   *)
(* the last '+'-separated token and whose modifier argument is the sum of  *)
(* the table values of the tokens before it, a token outside the table     *)
(* {shift:1, control:2, alt:4, altgr:8, meta:16} counting 0.               *)
(***************************************************************************)
TableValue(token) ==
    CASE token = "shift" -> 1
      [] token = "control" -> 2
      [] token = "alt" -> 4
      [] token = "altgr" -> 8
      [] token = "meta" -> 16
      [] OTHER -> 0

RECURSIVE TableSum(_)
TableSum(tokens) ==
    IF Len(tokens) = 0 THEN 0 ELSE TableValue(Head(tokens)) + TableSum(Tail(tokens))

ExpectedKeyPress(keys) ==
    LET tokens == split(keys, "+")
    IN "KeyPress " \o tokens[Len(tokens)] \o " "
           \o numToString(TableSum(SubSeq(tokens, 1, Len(tokens) - 1)))

C7_KeyPressModifierSum ==
    [][(IsStep("keyDown") /\ lastOp'.arg # "")
        => sent' = <<ExpectedKeyPress(lastOp'.arg)>>]_vars

(***************************************************************************)
(* C8: the timer a non-empty keyDown write starts fires unless a later     *)
(* non-empty keyDown write replaces it; it fires 200 time-units after the  *)
(* write, and its firing sends nothing, leaves keyDown reading "" and      *)
(* clears the timer reference.                                             *)
(***************************************************************************)
C8_AutoRelease ==
    /\ \A id \in 1..MaxTimers :
          (id \in DOMAIN timers /\ timers[id].status = "pending")
              ~> (id \in DOMAIN timers
                    /\ (timers[id].status = "fired" \/ Len(timers) > id))
    /\ [][IsStep("timer")
           => /\ sent' = <<>>
              /\ keyDown' = ""
              /\ mKeyRlsTimer' = NoTimer
              /\ sinceKeyWrite = KeyReleaseDelay]_vars

C8_Witness ==
    /\ lastOp = Op("timer", "1")
    /\ timers = <<[status |-> "fired", remaining |-> 0]>>
    /\ keyDown = ""
    /\ mKeyRlsTimer = NoTimer
    /\ sent = <<>>

ExpectedMousePress(mask, arg) ==
    "MousePress " \o mask \o " " \o (IF arg = "true" THEN "1" ELSE "2")

C10_MouseButtons ==
    /\ [][IsStep("leftDown")
           => /\ mLeftDown' = (lastOp'.arg = "true")
              /\ sent' = IF mLeftDown' # mLeftDown
                         THEN <<ExpectedMousePress("1024", lastOp'.arg)>> ELSE <<>>
              /\ mRightDown' = mRightDown]_vars
    /\ [][IsStep("rightDown")
           => /\ mRightDown' = (lastOp'.arg = "true")
              /\ sent' = IF mRightDown' # mRightDown
                         THEN <<ExpectedMousePress("4096", lastOp'.arg)>> ELSE <<>>
              /\ mLeftDown' = mLeftDown]_vars

C10_Witness ==
    /\ lastOp = Op("leftDown", "true")
    /\ mLeftDown
    /\ mRightDown
    /\ sent = <<>>

(***************************************************************************)
(* C11: the Launch line of a non-empty program input carries, in order,    *)
(* the working directory, the quoted first '|'-segment and the remaining   *)
(* segments verbatim; the working directory is the quoted second segment,  *)
(* or the default / when that segment is absent or empty.                  *)
(***************************************************************************)
ExpectedLaunch(str) ==
    LET segments == split(str, "|")
        workingDir == IF Len(segments) < 2 \/ segments[2] = ""
                      THEN "/" ELSE "\"" \o segments[2] \o "\""
    IN join(<<"Launch", workingDir, "\"" \o segments[1] \o "\"">>
                \o SubSeq(segments, 3, Len(segments)), " ")

C11_LaunchArguments ==
    [][(IsStep("program") /\ lastOp'.arg # "")
        => (sent' # <<>> /\ sent'[Len(sent')] = ExpectedLaunch(lastOp'.arg))]_vars

(***************************************************************************)
(* C12: a program write whose input is empty or whose executable-path      *)
(* segment is empty sends no Launch and leaves program reading ""; the     *)
(* stored program never has an empty executable path.                      *)
(***************************************************************************)
C12_MalformedProgramIgnored ==
    /\ [][(IsStep("program") /\ FirstSegment(lastOp'.arg) = "")
           => /\ \A i \in DOMAIN sent' : ~StartsWith(sent'[i], "Launch ")
              /\ program' = ""]_vars
    /\ [](program # "" => FirstSegment(program) # "")

(***************************************************************************)
(* C13: at most one key-release timer is live (started, not cancelled,     *)
(* not fired) in any state, a live timer is the one mKeyRlsTimer points    *)
(* to, and a timer that fires is the referenced one, never a replaced one. *)
(***************************************************************************)
C13_OneLiveTimer ==
    /\ [](/\ Cardinality(PendingTimers) <= 1
          /\ \A id \in PendingTimers : mKeyRlsTimer = id)
    /\ [][\A id \in DOMAIN timers :
             (timers[id].status # "fired" /\ timers'[id].status = "fired")
                 => (timers[id].status = "pending" /\ mKeyRlsTimer = id)]_vars

C13_Witness ==
    /\ Len(timers) = 2
    /\ timers[1].status = "cancelled"
    /\ timers[2].status = "pending"
    /\ mKeyRlsTimer = 2
    /\ lastOp = Op("keyDown", "")

(***************************************************************************)
(* C14: whenever keyDown reads a non-empty combo a release timer is live,  *)
(* so once the writes stop keyDown comes to read "" again.                 *)
(***************************************************************************)
C14_KeysReleased ==
    /\ [](keyDown # ""
            => (mKeyRlsTimer \in DOMAIN timers /\ timers[mKeyRlsTimer].status = "pending"))
    /\ (keyDown # "") ~> (keyDown = "")

C14_Witness ==
    /\ lastOp = Op("tick", "")
    /\ keyDown = "shift+control+a"
    /\ mKeyRlsTimer = 2
    /\ timers[2] = [status |-> "pending", remaining |-> 0]

(***************************************************************************)
(* C15: a program write sends a Terminate exactly when the stored program  *)
(* string is non-empty at that moment; the write that follows a            *)
(* disconnect event therefore sends none, only the Launch of a non-empty   *)
(* input.                                                                  *)
(***************************************************************************)
HasTerminate(lines) == \E i \in DOMAIN lines : StartsWith(lines[i], "Terminate ")

C15_TerminateIffRunning ==
    /\ [][IsStep("program") => (HasTerminate(sent') <=> mProgramParams # "")]_vars
    /\ [][(lastOp = Op("Connection", "false") /\ IsStep("program"))
           => /\ ~HasTerminate(sent')
              /\ Len(sent') = IF lastOp'.arg # "" THEN 1 ELSE 0
              /\ lastOp'.arg # "" => IsLaunchOf(sent'[1], lastOp'.arg)]_vars

C15_Witness ==
    /\ lastOp = Op("program", "b|d|x|y z")
    /\ ~connected
    /\ Len(sent) = 1
    /\ IsLaunchOf(sent[1], "b")
    /\ ~HasTerminate(sent)

(***************************************************************************)
(* C16: a property write from outside that changes the value read from     *)
(* power raises a change notification for power as part of that write.     *)
(***************************************************************************)
PropertyNames == {"power", "leftDown", "rightDown", "program", "keyDown"}

C16_PowerChangeNotified ==
    [][(lastOp'.op \in PropertyNames /\ power' # power)
        => \E i \in DOMAIN notified' : notified'[i] = "power"]_vars

(***************************************************************************)
(* C17, as stated: connected changes only in a transport callback, and     *)
(* the stored program, key combo, button flags and timer reference change  *)
(* only inside a property setter invocation.                               *)
(***************************************************************************)
C17_FieldsChangeOnlyInSetters ==
    [][/\ connected' # connected => lastOp'.op \in MessageTypes
       /\ <<mProgramParams, mCurrentKeys, mLeftDown, mRightDown, mKeyRlsTimer>>'
              # <<mProgramParams, mCurrentKeys, mLeftDown, mRightDown, mKeyRlsTimer>>
            => lastOp'.op \in PropertyNames]_vars

(***************************************************************************)
(* C17, amended: connected changes only in a connection callback; each     *)
(* button flag only in its own setter; the key combo and the timer         *)
(* reference only in a keyDown write or the release-timer callback; the    *)
(* stored program only in a program write, a power = false write or the    *)
(* callback of a disconnect.                                               *)
(***************************************************************************)
C17_FieldWriters ==
    [][/\ connected' # connected => IsStep("Connection")
       /\ mLeftDown' # mLeftDown => IsStep("leftDown")
       /\ mRightDown' # mRightDown => IsStep("rightDown")
       /\ mCurrentKeys' # mCurrentKeys => (IsStep("keyDown") \/ IsStep("timer"))
       /\ mKeyRlsTimer' # mKeyRlsTimer => (IsStep("keyDown") \/ IsStep("timer"))
       /\ mProgramParams' # mProgramParams
            => \/ IsStep("program")
               \/ lastOp' = Op("power", "false")
               \/ lastOp' = Op("Connection", "false")]_vars

C17_Witness ==
    /\ lastOp.op = "timer"
    /\ mKeyRlsTimer = NoTimer
    /\ keyDown = ""
    /\ connected
    /\ program = ""
    /\ notified = <<>>
    /\ mLeftDown

(***************************************************************************)
(* C18: a write to a property defined without the readOnly option raises   *)
(* changed(name) exactly once when the value its getter/setter function    *)
(* returns after storing differs from the value it returned before, and    *)
(* raises nothing when the two are the same; a write to a property defined *)
(* as readOnly changes nothing and raises nothing.                         *)
(***************************************************************************)
IsReadOnly(prop) == prop.options \in {<<[readOnly |-> "true"]>>}

C18_ScriptPropertyChanged ==
    [][\A name \in ScriptPropertyNames :
          (scriptOp'.op = "write" /\ scriptOp'.prop = name)
            => IF IsReadOnly(scriptProps[name])
               THEN scriptNotified' = <<>> /\ scriptProps' = scriptProps
               ELSE scriptNotified' =
                        IF scriptProps'[name].value # scriptProps[name].value
                        THEN <<name>> ELSE <<>>]_vars

C18_Witness ==
    /\ scriptOp = ScriptOp("write", "level", 3)
    /\ scriptProps["level"].kind = "even"
    /\ scriptProps["level"].value = 2
    /\ scriptNotified = <<>>
    /\ scriptProps["mode"].defined
    /\ IsReadOnly(scriptProps["mode"])

====
